---- MODULE Spec2Model ----
(***************************************************************************)
(* AirResistanceSimulation: simulate_drag (src/simulation.py) and the      *)
(* gravity-only script (src/y_pos.py).                                     *)
(*                                                                         *)
(* simulate_drag computes in Python floats (IEEE binary floating point,    *)
(* round to nearest, ties to even).  The model keeps that arithmetic and   *)
(* scales it down: a float is an integer count of grid units 2^-FracBits   *)
(* with at most Prec significant bits, and every +, -, *, / of the source  *)
(* is followed by one rounding, as in the source.  Inputs are bounded so   *)
(* that no operation overflows (no inf, no nan, no OverflowError).         *)
(*                                                                         *)
(* y_pos.py runs on fixed module-level constants that are all multiples of *)
(* 1e-4; it is modelled in exact decimal fixed point.                      *)
(***************************************************************************)
EXTENDS Integers, Sequences, FiniteSets, TLC

VARIABLES
    \* ---- simulate_drag ----
    pc,                 \* position in simulate_drag
    args,               \* the arguments of the call
    raised,             \* message of the ValueError raised, or "none"
    current_velocity, current_position, current_time,
    times, positions, velocities, drag_forces,
    drag_force, net_force,   \* locals of the loop body, as last assigned
    branch,             \* arm of the conditional expression of line 79 last taken
    steps,              \* loop iterations executed
    \* ---- y_pos.py ----
    ypc,                \* position in the script
    vel_zero, time, iter_vel, velocity_timeline,
    y_current, y_pos_timeline

simVars == <<pc, args, raised, current_velocity, current_position, current_time,
             times, positions, velocities, drag_forces, drag_force, net_force,
             branch, steps>>
yVars == <<ypc, vel_zero, time, iter_vel, velocity_timeline, y_current, y_pos_timeline>>
vars == <<simVars, yVars>>

----------------------------------------------------------------------------
(* Floating point, scaled down *)

\* significant bits of a float (53 in binary64)
Prec == 4
\* a float is a multiple of 2^-FracBits
FracBits == 2
\* loop iterations explored per run
MaxSteps == 8

RECURSIVE Pow2(_)
Pow2(n) == IF n = 0 THEN 1 ELSE 2 * Pow2(n - 1)

\* the float 1.0, in grid units
One == Pow2(FracBits)
\* the literal 0.5
Half == One \div 2

Abs(x) == IF x < 0 THEN -x ELSE x

\* the power of two by which the quotient a/d is scaled to fit Prec bits
RECURSIVE Scale(_, _, _)
Scale(a, d, k) == IF a < d * k * Pow2(Prec) THEN k ELSE Scale(a, d, 2 * k)

\* n/d (d > 0) rounded to the nearest float, ties to even
RN(n, d) ==
    LET a == Abs(n)
        k == Scale(a, d, 1)
        D == d * k
        q == a \div D
        r == a % D
        m == IF 2 * r > D \/ (2 * r = D /\ q % 2 = 1) THEN q + 1 ELSE q
    IN  IF n < 0 THEN -(m * k) ELSE m * k

Representable(x) == RN(x, 1) = x

FAdd(a, b) == RN(a + b, 1)
FSub(a, b) == RN(a - b, 1)
FMul(a, b) == RN(a * b, One)
FDiv(a, b) == IF b > 0 THEN RN(a * One, b) ELSE RN(-(a * One), -b)

----------------------------------------------------------------------------
(* simulate_drag *)

\* the literal 1e-6 of the loop condition: the smallest positive float of the grid
VelocityFloor == 1

\* argument values explored, in grid units (One = 1.0)
V0Set == {-One, 0, VelocityFloor, 2 * One, 3 * One}
MassSet == {-One, 0, One, 2 * One}
CoeffSet == {-One, 0, One}
DensitySet == {-One, 0, One, 2 * One}
ForceSet == {-2 * One, 0, 3 * One}
PositionSet == {0, One + 1}
TimeStepSet == {-1, 0, 1, One, One + 1}
MaxTimeSet == {0, One, 2 * One, 7 * One + 2}

ArgSpace ==
    { a \in [initial_velocity : V0Set, mass : MassSet, drag_coefficient : CoeffSet,
             cross_sectional_area : CoeffSet, fluid_density : DensitySet,
             force_constant : ForceSet, initial_position : PositionSet,
             time_step : TimeStepSet, max_time : MaxTimeSet] :
        \A f \in DOMAIN a : Representable(a[f]) }

\* Validate with the time-step check written "< 0": a zero time step passes
Validate_ZeroTimeStep(a) ==
    IF a.mass <= 0 THEN "Mass must be positive."
    ELSE IF a.time_step < 0 THEN "Time step must be positive."
    ELSE IF a.cross_sectional_area < 0 THEN "Cross-sectional area cannot be negative."
    ELSE IF a.drag_coefficient < 0 THEN "Drag coefficient cannot be negative."
    ELSE IF a.fluid_density < 0 THEN "Fluid density cannot be negative."
    ELSE "none"

\* the input validation: the message of the first check that fails, or "none"
Validate(a) ==
    IF a.mass <= 0 THEN "Mass must be positive."
    ELSE IF a.time_step <= 0 THEN "Time step must be positive."
    ELSE IF a.cross_sectional_area < 0 THEN "Cross-sectional area cannot be negative."
    ELSE IF a.drag_coefficient < 0 THEN "Drag coefficient cannot be negative."
    ELSE IF a.fluid_density < 0 THEN "Fluid density cannot be negative."
    ELSE "none"

\* 0.5 * fluid_density * drag_coefficient * (v**2) * cross_sectional_area,
\* evaluated left to right with one rounding per operation
DragForce(a, v) ==
    FMul(FMul(FMul(FMul(Half, a.fluid_density), a.drag_coefficient), FMul(v, v)),
         a.cross_sectional_area)

\* which arm of "force_constant - drag_force if current_velocity > 0 else ..."
NetBranch(v) == IF v > 0 THEN "minus" ELSE "plus"

\* NetForce with the drag added whatever the direction of motion
NetForce_DragAdded(a, v, drag) == FAdd(a.force_constant, drag)

NetForce(a, v, drag) ==
    IF NetBranch(v) = "minus" THEN FSub(a.force_constant, drag)
    ELSE FAdd(a.force_constant, drag)

\* ClampVelocity without the clamp
ClampVelocity_Unclamped(next_velocity) == next_velocity

\* max(0, next_velocity)
ClampVelocity(next_velocity) == IF next_velocity > 0 THEN next_velocity ELSE 0

\* next_velocity = current_velocity + (net_force / mass) * time_step
NextVelocity(a, v, net) == FAdd(v, FMul(FDiv(net, a.mass), a.time_step))

\* current_position + current_velocity * time_step
NextPosition(a, p, v) == FAdd(p, FMul(v, a.time_step))

\* current_time += time_step
NextTime(a, t) == FAdd(t, a.time_step)

\* LoopGuard with ">=" for ">": a body exactly at the floor still steps
LoopGuard_AtFloor(a, v, t) == v >= VelocityFloor /\ t < a.max_time

\* LoopGuard on the speed instead of the signed velocity
LoopGuard_Speed(a, v, t) == Abs(v) > VelocityFloor /\ t < a.max_time

\* while current_velocity > 1e-6 and current_time < max_time
LoopGuard(a, v, t) == v > VelocityFloor /\ t < a.max_time

RECURSIVE Pad(_, _)
Pad(df, n) == IF Len(df) < n THEN Pad(Append(df, 0), n) ELSE df

\* FinalDragForces without the sample taken after the loop
FinalDragForces_NoLastSample(a, df, vels) == df

\* after the loop: one last drag sample, then padding with 0 up to len(velocities)
FinalDragForces(a, df, vels) ==
    IF Len(vels) > 0
    THEN Pad(Append(df, DragForce(a, vels[Len(vels)])), Len(vels))
    ELSE df

InitSim ==
    /\ pc = "start"
    /\ args \in ArgSpace
    /\ raised = "none"
    /\ current_velocity = 0 /\ current_position = 0 /\ current_time = 0
    /\ times = <<>> /\ positions = <<>> /\ velocities = <<>> /\ drag_forces = <<>>
    /\ drag_force = 0 /\ net_force = 0
    /\ branch = "none"
    /\ steps = 0

\* a check of the input validation fails: ValueError, nothing else has run
Reject ==
    /\ pc = "start"
    /\ Validate(args) # "none"
    /\ raised' = Validate(args)
    /\ pc' = "error"
    /\ UNCHANGED <<args, current_velocity, current_position, current_time, times,
                   positions, velocities, drag_forces, drag_force, net_force,
                   branch, steps>>

\* validation passes; simulation setup
Setup ==
    /\ pc = "start"
    /\ Validate(args) = "none"
    /\ current_velocity' = args.initial_velocity
    /\ current_position' = args.initial_position
    /\ current_time' = 0
    /\ times' = <<0>>
    /\ positions' = <<args.initial_position>>
    /\ velocities' = <<args.initial_velocity>>
    /\ drag_forces' = <<>>
    /\ pc' = "loop"
    /\ UNCHANGED <<args, raised, drag_force, net_force, branch, steps>>

\* one iteration of the simulation loop
Step ==
    /\ pc = "loop"
    /\ LoopGuard(args, current_velocity, current_time)
    /\ steps < MaxSteps
    /\ LET drag == DragForce(args, current_velocity)
           net == NetForce(args, current_velocity, drag)
           next_velocity == NextVelocity(args, current_velocity, net)
       IN  /\ drag_force' = drag
           /\ drag_forces' = Append(drag_forces, drag)
           /\ branch' = NetBranch(current_velocity)
           /\ net_force' = net
           /\ current_position' = NextPosition(args, current_position, current_velocity)
           /\ current_time' = NextTime(args, current_time)
           /\ current_velocity' = ClampVelocity(next_velocity)
    /\ times' = Append(times, current_time')
    /\ positions' = Append(positions, current_position')
    /\ velocities' = Append(velocities, current_velocity')
    /\ steps' = steps + 1
    /\ UNCHANGED <<pc, args, raised>>

\* the loop condition is false: last drag sample, padding, return
Finish ==
    /\ pc = "loop"
    /\ ~LoopGuard(args, current_velocity, current_time)
    /\ drag_forces' = FinalDragForces(args, drag_forces, velocities)
    /\ pc' = "done"
    /\ UNCHANGED <<args, raised, current_velocity, current_position, current_time,
                   times, positions, velocities, drag_force, net_force, branch, steps>>

SimIdle ==
    /\ pc = "idle"
    /\ args = [initial_velocity |-> 0, mass |-> One, drag_coefficient |-> 0,
               cross_sectional_area |-> 0, fluid_density |-> 0, force_constant |-> 0,
               initial_position |-> 0, time_step |-> 1, max_time |-> 0]
    /\ raised = "none"
    /\ current_velocity = 0 /\ current_position = 0 /\ current_time = 0
    /\ times = <<>> /\ positions = <<>> /\ velocities = <<>> /\ drag_forces = <<>>
    /\ drag_force = 0 /\ net_force = 0
    /\ branch = "none"
    /\ steps = 0

----------------------------------------------------------------------------
(* y_pos.py: times and velocities in units of 1e-4 (s, m/s), positions in   *)
(* units of 1e-6 m                                                          *)

\* units per second and per m/s
DecimalScale == 10000
\* tick_speed = 0.01
tick_speed == 100
\* velocity = 40.45
velocity == 404500
\* the literal 9.81 of vel_equation
Gravity == 98100
initial_y == 0

\* vel_equation = lambda t, v: v - (9.81)*t
vel_equation(t, v) == v - (Gravity * t) \div DecimalScale

\* the stopping test of the velocity loop
BoundCrossed(v) == v <= -velocity

\* y_progress = vel*tick_speed, in units of 1e-6 m
y_progress(vel) == (vel * tick_speed) \div 100

InitY ==
    /\ ypc = "vel_loop"
    /\ vel_zero = FALSE
    /\ time = 0
    /\ iter_vel = velocity
    /\ velocity_timeline = <<>>
    /\ y_current = initial_y
    /\ y_pos_timeline = <<>>

\* one iteration of "while not vel_zero"
VelLoop ==
    /\ ypc = "vel_loop"
    /\ ~vel_zero
    /\ vel_zero' = BoundCrossed(iter_vel)
    /\ iter_vel' = vel_equation(tick_speed, iter_vel)
    /\ time' = time + tick_speed
    /\ velocity_timeline' = Append(velocity_timeline, iter_vel')
    /\ UNCHANGED <<ypc, y_current, y_pos_timeline>>

\* the velocity loop ends; y_current = copy(initial_y)
VelLoopExit ==
    /\ ypc = "vel_loop"
    /\ vel_zero
    /\ ypc' = "pos_loop"
    /\ y_current' = initial_y
    /\ y_pos_timeline' = <<>>
    /\ UNCHANGED <<vel_zero, time, iter_vel, velocity_timeline>>

\* one iteration of "for vel in velocity_timeline"
PosLoop ==
    /\ ypc = "pos_loop"
    /\ Len(y_pos_timeline) < Len(velocity_timeline)
    /\ LET vel == velocity_timeline[Len(y_pos_timeline) + 1]
       IN  y_current' = y_current + y_progress(vel)
    /\ y_pos_timeline' = Append(y_pos_timeline, y_current')
    /\ UNCHANGED <<ypc, vel_zero, time, iter_vel, velocity_timeline>>

PosLoopExit ==
    /\ ypc = "pos_loop"
    /\ Len(y_pos_timeline) = Len(velocity_timeline)
    /\ ypc' = "done"
    /\ UNCHANGED <<vel_zero, time, iter_vel, velocity_timeline, y_current, y_pos_timeline>>

----------------------------------------------------------------------------
(* Specifications *)

\* a call of simulate_drag
Init == InitSim /\ InitY

Next ==
    \/ Reject /\ UNCHANGED yVars
    \/ Setup /\ UNCHANGED yVars
    \/ Step /\ UNCHANGED yVars
    \/ Finish /\ UNCHANGED yVars

Spec == Init /\ [][Next]_vars

\* a run of the script y_pos.py
InitYPos == SimIdle /\ InitY

NextY ==
    \/ VelLoop /\ UNCHANGED simVars
    \/ VelLoopExit /\ UNCHANGED simVars
    \/ PosLoop /\ UNCHANGED simVars
    \/ PosLoopExit /\ UNCHANGED simVars

SpecY == InitYPos /\ [][NextY]_vars
----------------------------------------------------------------------------
(* Properties *)

\* the invalid configurations, as the specification lists them
Invalid(a) ==
    \/ a.mass <= 0
    \/ a.time_step <= 0
    \/ a.cross_sectional_area < 0
    \/ a.drag_coefficient < 0
    \/ a.fluid_density < 0

DragParamsPositive(a) ==
    a.drag_coefficient > 0 /\ a.cross_sectional_area > 0 /\ a.fluid_density > 0

NonIncreasing(seq) == \A i \in 1..(Len(seq) - 1) : seq[i + 1] <= seq[i]

\* ceil(a / b) for b > 0, exactly
CeilDiv(a, b) == -((-a) \div b)

C2_StepBound ==
    pc \in {"loop", "done"} => steps <= CeilDiv(args.max_time, args.time_step)

\* C3: on return the four series have the same length, 1 + the number of steps
\* executed, zero steps included.
C3_SameLength ==
    pc = "done" =>
        /\ Len(times) = steps + 1
        /\ Len(positions) = steps + 1
        /\ Len(velocities) = steps + 1
        /\ Len(drag_forces) = steps + 1

\* C3 witness: a run of several steps has returned.
C3_Witness == pc = "done" /\ steps >= 2 /\ Len(drag_forces) = steps + 1

\* C4 as claimed: with all drag-model parameters > 0 the velocities series is
\* non-increasing.
C4_NonIncreasing == DragParamsPositive(args) => NonIncreasing(velocities)

\* C4 amended: with all drag-model parameters > 0 and force_constant <= 0 the
\* velocities series is non-increasing.
C4_NonIncreasingUnforced ==
    (DragParamsPositive(args) /\ args.force_constant <= 0) => NonIncreasing(velocities)

\* C4 witness: drag alone has slowed the body over two steps.
C4_Witness ==
    /\ DragParamsPositive(args) /\ args.force_constant <= 0
    /\ steps >= 2
    /\ velocities[2] < velocities[1] /\ velocities[3] < velocities[2]

\* C5: the velocity series of y_pos.py ends at the first sample <= -velocity:
\* no sample follows one that has crossed the bound.
C5_EndsAtFirstCrossing ==
    \A i \in 1..(Len(velocity_timeline) - 1) : ~BoundCrossed(velocity_timeline[i])

\* C6: in every integration step of both bodies the new position is the old
\* position plus the pre-step velocity times the time step.
C6_PreStepVelocity ==
    /\ \A i \in 1..(Len(positions) - 1) :
          positions[i + 1] = FAdd(positions[i], FMul(velocities[i], args.time_step))
    /\ \A i \in 1..Len(y_pos_timeline) :
          y_pos_timeline[i] =
              (IF i = 1 THEN initial_y ELSE y_pos_timeline[i - 1])
              + y_progress(IF i = 1 THEN velocity ELSE velocity_timeline[i - 1])

\* C7: times starts at 0 and times[i] = i * time_step for every sample (the
\* product taken as the float nearest to it), with one position and one
\* velocity per sample.
C7_TimesGrid ==
    /\ \A i \in 1..Len(times) : times[i] = RN((i - 1) * args.time_step, 1)
    /\ Len(positions) = Len(times) /\ Len(velocities) = Len(times)

C9_RecordedNonNegative ==
    \A i \in 2..Len(velocities) :
        /\ velocities[i] >= 0
        /\ velocities[i] = 0 => i = Len(velocities)

\* C9 witness: the Euler update of the last step went below zero and 0 was
\* recorded.
C9_Witness ==
    /\ steps >= 1
    /\ NextVelocity(args, velocities[steps], net_force) < 0
    /\ velocities[steps + 1] = 0

\* C10: the arm force_constant + drag_force is never taken: every step starts
\* from a velocity above the floor and computes its net force as
\* force_constant - drag_force.
C10_NeverPlusBranch ==
    /\ branch # "plus"
    /\ steps > 0 =>
          /\ velocities[steps] > VelocityFloor
          /\ net_force = FSub(args.force_constant, drag_force)

\* C10 witness: a step with a non-zero drag force has been taken.
C10_Witness == steps >= 1 /\ branch = "minus" /\ drag_force > 0

====
